---- MODULE Spec2Model ----
(***************************************************************************)
(* State-machine model of the authentication / session-lifecycle core of   *)
(* api_logistico: the users table (models/User), the refresh_tokens table  *)
(* (AuthController), the Excel mirror (excelService) and the request       *)
(* handlers that read and write them.  Every handler is split at its       *)
(* awaits on the database, so that concurrent requests interleave exactly  *)
(* where the Node.js event loop lets them.                                 *)
(***************************************************************************)
EXTENDS Integers, Sequences, FiniteSets, TLC

(* ------------------------------ bounds --------------------------------- *)
\* Days the clock runs for.
MaxDays == 8
\* Instants per UTC day: an instant is a second of the clock jsonwebtoken reads.
DayLen == 2
\* Instants the clock is followed one by one before it only moves by days.
MaxTick == 4
\* Logins that get as far as signing tokens.
MaxLogins == 2
\* Largest login_attempts value a login is still started from.
MaxCount == 4
\* Rows of the users table.
MaxUsers == 3
\* Reconciliation passes (startup or on demand) in one behaviour.
MaxPasses == 2

(* --------------------------- configuration ----------------------------- *)
\* '7 * 24 * 60 * 60 * 1000' of storeRefreshToken, in days.
LedgerDays == 7
\* 'T' and ' ' as character codes: the separators of Date.toISOString()
\* and of SQLite's datetime('now').
CharT == 84
CharSpace == 32

\* The last instant of the last day.
MaxTime == MaxDays * DayLen + DayLen - 1

Procs == {"p1", "p2"}

Null == <<>>

AdminEmail  == "admin@example.com"
AdminPlain  == "Admin123!"

(* ------------------------------ bcrypt --------------------------------- *)
\* A password value is a text and the number of bcrypt rounds applied to it;
\* what a caller types has rounds = 0.
Plain(text) == [text |-> text, rounds |-> 0]

NoPassword == Plain("")

BcryptHash(pw) == [pw EXCEPT !.rounds = @ + 1]

BcryptCompare(pw, hash) == hash = BcryptHash(pw)

(* ------------------------------ time ----------------------------------- *)
\* Date.toISOString(): "YYYY-MM-DD" "T" "HH:MM:SS.sssZ".
ToISOString(t) == <<t \div DayLen, CharT, t % DayLen>>

\* new Date(iso).getTime()
ParseDate(iso) == iso[1] * DayLen + iso[3]

\* SQLite datetime('now'): "YYYY-MM-DD" " " "HH:MM:SS".
SqlDatetime(t) == <<t \div DayLen, CharSpace, t % DayLen>>

\* SQLite's comparison of two TEXT values (BINARY collation: memcmp).
TextGreater(a, b) ==
    \/ a[1] > b[1]
    \/ a[1] = b[1] /\ a[2] > b[2]
    \/ a[1] = b[1] /\ a[2] = b[2] /\ a[3] > b[3]

(* ------------------------------ state ---------------------------------- *)
VARIABLES
    now,      \* the clock
    config,   \* config.security / config.jwt, loaded once at startup
    users,    \* the users table: row id = index
    ledger,   \* the refresh_tokens table, in insertion order
    excel,    \* the rows of the Excel mirror
    pc,       \* where each request is in its handler
    loc,      \* the handler's local variables
    res,      \* the last response each request slot sent
    fails,    \* history: per user id, the login_attempts last written by a reset or an
              \* update plus the failed-attempt transitions made since
    passes,   \* history: the reconcile passes completed, in order of completion
    made,     \* history: the rows reconcile passes inserted, with the record of each
    issued,   \* history: the refresh tokens login responses handed out, in order
    revoked   \* history: the tokens a completed logout was called with

vars == <<now, config, users, ledger, excel, pc, loc, res, fails, passes, made, issued,
          revoked>>

NoUser == [id |-> 0, email |-> "", password |-> NoPassword, role |-> "",
           status |-> "", loginAttempts |-> 0, lockedUntil |-> Null,
           updatedAt |-> Null]

NoToken == [uid |-> 0, email |-> "", role |-> "", iat |-> 0, exp |-> 0, key |-> "none"]

NoLoc == [email |-> "", pw |-> NoPassword, user |-> NoUser, access |-> NoToken,
          refresh |-> NoToken, expiresAt |-> Null, recs |-> <<>>, i |-> 0,
          added |-> 0, errors |-> <<>>, body |-> <<>>, actor |-> NoUser,
          exist |-> 0, at |-> 0, users0 |-> <<>>]

NoRes == [op |-> "none", status |-> 0, message |-> "", access |-> NoToken,
          refresh |-> NoToken, user |-> NoUser, at |-> 0, arg |-> NoToken,
          error |-> "", added |-> 0, errors |-> <<>>, email |-> "", pw |-> NoPassword,
          removed |-> FALSE, faulted |-> FALSE]

\* new User(row): 'login_attempts || 0'.
Row(id) == [users[id] EXCEPT !.id = id]

\* SELECT * FROM users WHERE email = ?  (0: no row)
FindByEmail(email) ==
    IF \E i \in 1..Len(users) : users[i].email = email
    THEN CHOOSE i \in 1..Len(users) : users[i].email = email
    ELSE 0

\* SELECT * FROM users WHERE id = ?
FindById(id) == IF id \in 1..Len(users) THEN id ELSE 0

\* Mutant of UniqueViolation: the email column without its UNIQUE constraint.
UniqueViolationNever(table, email, except) == FALSE

\* email TEXT UNIQUE NOT NULL
UniqueViolation(table, email, except) ==
    \E i \in 1..Len(table) : i # except /\ table[i].email = email

\* Mutant of UserCreate: INSERT OR REPLACE, a row of that email is overwritten.
UserCreateUpsert(table, data) ==
    LET row == [id |-> Len(table) + 1, email |-> data.email,
                password |-> BcryptHash(data.password),
                role |-> IF data.role = "" THEN "user" ELSE data.role,
                status |-> IF data.status = "" THEN "active" ELSE data.status,
                loginAttempts |-> 0, lockedUntil |-> Null,
                updatedAt |-> SqlDatetime(now)]
    IN IF \E i \in 1..Len(table) : table[i].email = data.email
       THEN LET i == CHOOSE j \in 1..Len(table) : table[j].email = data.email
            IN [ok |-> TRUE, table |-> [table EXCEPT ![i] = [row EXCEPT !.id = i]], id |-> i]
       ELSE [ok |-> TRUE, table |-> Append(table, row), id |-> Len(table) + 1]

\* User.create: hash the password, INSERT.  The result is the new table, or
\* the table unchanged and ok = FALSE when the INSERT is rejected.  updated_at
\* takes the column's DEFAULT CURRENT_TIMESTAMP.
UserCreate(table, data) ==
    IF UniqueViolation(table, data.email, 0)
    THEN [ok |-> FALSE, table |-> table, id |-> 0]
    ELSE [ok |-> TRUE,
          table |-> Append(table,
              [id |-> Len(table) + 1, email |-> data.email,
               password |-> BcryptHash(data.password),
               role |-> IF data.role = "" THEN "user" ELSE data.role,
               status |-> IF data.status = "" THEN "active" ELSE data.status,
               loginAttempts |-> 0, lockedUntil |-> Null,
               updatedAt |-> SqlDatetime(now)]),
          id |-> Len(table) + 1]

\* Mutant of UpdatedField: updated_at is written only with another column.
UpdatedFieldWhenSupplied(row, data, f) ==
    IF f = "updatedAt"
    THEN (IF DOMAIN data = {} THEN row[f] ELSE SqlDatetime(now))
    ELSE IF f \in DOMAIN data
    THEN (IF f = "password" THEN BcryptHash(data[f]) ELSE data[f])
    ELSE row[f]

\* The column a field of updateData is written to, hashed when it is the
\* password; 'updated_at = CURRENT_TIMESTAMP' is pushed on every call.
UpdatedField(row, data, f) ==
    IF f = "updatedAt" THEN SqlDatetime(now)
    ELSE IF f \in DOMAIN data
    THEN (IF f = "password" THEN BcryptHash(data[f]) ELSE data[f])
    ELSE row[f]

\* User.update: only the fields updateData supplies are written.
UserUpdate(table, id, data) ==
    IF id \notin 1..Len(table) THEN [ok |-> FALSE, error |-> FALSE, table |-> table]
    ELSE IF "email" \in DOMAIN data /\ UniqueViolation(table, data.email, id)
    THEN [ok |-> FALSE, error |-> TRUE, table |-> table]
    ELSE [ok |-> TRUE, error |-> FALSE,
          table |-> [table EXCEPT ![id] =
              [f \in DOMAIN table[id] |-> UpdatedField(table[id], data, f)]]]

\* Mutant of IsLocked: a lock once set is taken as running, whatever the time.
IsLockedSticky(user, t) == user.lockedUntil # Null

\* Mutant of IsLocked: the lock is never seen.
IsLockedNever(user, t) == FALSE

\* User.isLocked
IsLocked(user, t) ==
    user.lockedUntil # Null /\ t < ParseDate(user.lockedUntil)

\* User.verifyPassword
VerifyPassword(user, pw) == BcryptCompare(pw, user.password)

(* ------------------------------ tokens --------------------------------- *)
\* jwt.sign(payload, secret, {expiresIn}): iat is the clock's second, the
\* signature is a function of payload and secret, so two tokens signed for
\* the same identity in the same second are the same string.
SignAccess(user, t) ==
    [uid |-> user.id, email |-> user.email, role |-> user.role,
     iat |-> t, exp |-> t + config.expiresIn, key |-> "access"]

SignRefresh(user, t) ==
    [uid |-> user.id, email |-> user.email, role |-> "",
     iat |-> t, exp |-> t + config.refreshExpiresIn, key |-> "refresh"]

\* Mutant of JwtVerify: the signature is checked, the exp claim is not.
JwtVerifyIgnoringExp(token, key, t) == token.key = key

\* jwt.verify(token, secret): the signature was made with that secret and
\* the token's own exp is still ahead ('clockTimestamp >= exp' is expired).
JwtVerify(token, key, t) == token.key = key /\ t < token.exp

\* storeRefreshToken's expiresAt: now + 7 days, as an ISO string.
LedgerExpiry(t) == ToISOString(t + LedgerDays * DayLen)

\* Mutant of ValidateRefreshToken: the signature is trusted, the ledger not asked.
ValidateRefreshTokenTrusting(table, token, userId, t) == TRUE

\* validateRefreshToken: token = ? AND user_id = ? AND expires_at > datetime("now")
ValidateRefreshToken(table, token, userId, t) ==
    \E k \in 1..Len(table) :
        /\ table[k].token = token
        /\ table[k].userId = userId
        /\ TextGreater(table[k].expiresAt, SqlDatetime(t))

\* removeRefreshToken: DELETE FROM refresh_tokens WHERE token = ?
KeepsRow(row, token) == row.token # token

\* Mutant of RemoveRefreshToken: every session of the token's user is deleted.
RemoveUserSessions(table, token) ==
    SelectSeq(table, LAMBDA row : row.userId # token.uid)

\* Mutant of RemoveRefreshToken: deletes one matching row only (LIMIT 1).
RemoveOneRow(table, token) ==
    IF \E k \in 1..Len(table) : table[k].token = token
    THEN LET k == CHOOSE j \in 1..Len(table) :
                    table[j].token = token /\ \A m \in 1..(j - 1) : table[m].token # token
         IN [j \in 1..(Len(table) - 1) |-> IF j < k THEN table[j] ELSE table[j + 1]]
    ELSE table

RemoveRefreshToken(table, token) ==
    LET Keep(row) == KeepsRow(row, token) IN SelectSeq(table, Keep)

\* removeRefreshToken's result: 'this.changes > 0'.
RemovesSome(table, token) == \E k \in 1..Len(table) : table[k].token = token

(* ----------------------------- responses ------------------------------- *)
MsgInvalid   == "Invalid credentials"
MsgInactive  == "Account is inactive"
MsgLocked    == "Account is temporarily locked due to too many failed login attempts"
MsgTooMany   == "Too many failed attempts. Account has been temporarily locked."
MsgLoginOk   == "Login successful"
MsgNoToken   == "Refresh token is required"
MsgBadToken  == "Invalid refresh token"
MsgNoUser    == "User not found or inactive"
MsgRefreshed == "Token refreshed successfully"
MsgLogout    == "Logout successful"
MsgExists    == "User with this email already exists"
MsgCreated   == "User created successfully"
MsgServer    == "Server error"
MsgSync      == "Sync completed"

Idle(p) == pc[p] = "idle"

AllIdle == \A p \in Procs : Idle(p)

Reply(p, r) ==
    /\ res' = [res EXCEPT ![p] = r]
    /\ pc' = [pc EXCEPT ![p] = "idle"]
    /\ loc' = [loc EXCEPT ![p] = NoLoc]

Goto(p, label, l) ==
    /\ pc' = [pc EXCEPT ![p] = label]
    /\ loc' = [loc EXCEPT ![p] = l]
    /\ res' = [res EXCEPT ![p] = NoRes]

(* ------------------------------- login --------------------------------- *)
\* Logins that have signed tokens or, as things stand, are going to.
LoginsUnderWay ==
    Len(issued) + Cardinality({q \in Procs :
        \/ pc[q] = "store"
        \/ pc[q] = "verify" /\ BcryptCompare(loc[q].pw, loc[q].user.password)})

LoginReply(status, message, user, pw) ==
    [NoRes EXCEPT !.op = "login", !.status = status, !.message = message,
                  !.user = user, !.at = now, !.pw = pw]

\* login, up to the lock check: findByEmail, status, isLocked.
LoginFind(p, email, pw) ==
    /\ Idle(p)
    /\ LET id == FindByEmail(email) IN
       IF id = 0
       THEN Reply(p, LoginReply(401, MsgInvalid, NoUser, pw))
       ELSE /\ users[id].loginAttempts < MaxCount /\ fails[id] < MaxCount
            /\ LoginsUnderWay < MaxLogins \/ ~BcryptCompare(pw, users[id].password)
            /\ IF Row(id).status # "active"
               THEN Reply(p, LoginReply(401, MsgInactive, Row(id), pw))
               ELSE IF IsLocked(Row(id), now)
               THEN Reply(p, LoginReply(423, MsgLocked, Row(id), pw))
               ELSE Goto(p, "verify", [NoLoc EXCEPT !.email = email, !.pw = pw,
                                                    !.user = Row(id), !.at = now])
    /\ UNCHANGED <<now, config, users, ledger, excel, fails, passes, made, issued, revoked>>

\* Mutant of IncrementLoginAttempts: a lock that has run out starts the count anew.
IncrementLoginAttemptsFresh(table, user, t) ==
    LET attempts == IF user.lockedUntil # Null /\ t >= ParseDate(user.lockedUntil)
                    THEN 1 ELSE user.loginAttempts + 1
        lockedUntil == IF attempts >= config.maxLoginAttempts
                       THEN ToISOString(t + config.lockoutTime)
                       ELSE Null
    IN UserUpdate(table, user.id,
                  [loginAttempts |-> attempts, lockedUntil |-> lockedUntil]).table

\* Mutant of IncrementLoginAttempts: locks one attempt late ('>' for '>=').
IncrementLoginAttemptsLate(table, user, t) ==
    LET attempts == user.loginAttempts + 1
        lockedUntil == IF attempts > config.maxLoginAttempts
                       THEN ToISOString(t + config.lockoutTime)
                       ELSE Null
    IN UserUpdate(table, user.id,
                  [loginAttempts |-> attempts, lockedUntil |-> lockedUntil]).table

\* User.incrementLoginAttempts, against the row the login read.
IncrementLoginAttempts(table, user, t) ==
    LET attempts == user.loginAttempts + 1
        lockedUntil == IF attempts >= config.maxLoginAttempts
                       THEN ToISOString(t + config.lockoutTime)
                       ELSE Null
    IN UserUpdate(table, user.id,
                  [loginAttempts |-> attempts, lockedUntil |-> lockedUntil]).table

\* Mutant of ResetLoginAttempts: the counter is reset, the lock is left stored.
ResetCounterOnly(table, user) ==
    IF user.loginAttempts > 0
    THEN UserUpdate(table, user.id, [loginAttempts |-> 0]).table
    ELSE table

\* User.resetLoginAttempts, run only 'if (user.loginAttempts > 0)'.
ResetLoginAttempts(table, user) ==
    IF user.loginAttempts > 0
    THEN UserUpdate(table, user.id, [loginAttempts |-> 0, lockedUntil |-> Null]).table
    ELSE table

\* login, from verifyPassword to the signing of the tokens.
LoginVerify(p) ==
    /\ pc[p] = "verify"
    /\ LET user == loc[p].user IN
       IF ~VerifyPassword(user, loc[p].pw)
       THEN /\ users' = IncrementLoginAttempts(users, user, now)
            /\ fails' = [fails EXCEPT ![user.id] = @ + 1]
            /\ Reply(p, LoginReply(401,
                   IF user.loginAttempts + 1 >= config.maxLoginAttempts
                   THEN MsgTooMany ELSE MsgInvalid, user, loc[p].pw))
       ELSE /\ users' = ResetLoginAttempts(users, user)
            /\ fails' = IF user.loginAttempts > 0
                        THEN [fails EXCEPT ![user.id] = 0] ELSE fails
            /\ Goto(p, "store", [loc[p] EXCEPT !.access = SignAccess(user, now),
                                               !.refresh = SignRefresh(user, now),
                                               !.expiresAt = LedgerExpiry(now)])
    /\ UNCHANGED <<now, config, ledger, excel, passes, made, issued, revoked>>

\* storeRefreshToken: INSERT INTO refresh_tokens
StoreRefreshToken(table, token, userId, expiresAt) ==
    Append(table, [token |-> token, userId |-> userId, expiresAt |-> expiresAt])

\* login, from the INSERT of the refresh token to the response.
LoginStore(p) ==
    /\ pc[p] = "store"
    /\ ledger' = StoreRefreshToken(ledger, loc[p].refresh, loc[p].user.id, loc[p].expiresAt)
    /\ issued' = Append(issued, loc[p].refresh)
    /\ Reply(p, [LoginReply(200, MsgLoginOk, loc[p].user, loc[p].pw)
                    EXCEPT !.access = loc[p].access, !.refresh = loc[p].refresh])
    /\ UNCHANGED <<now, config, users, excel, fails, passes, made, revoked>>

(* ------------------------------- clock --------------------------------- *)
\* The clock moves on by one instant; the responses have been delivered.
Tick ==
    /\ now < MaxTime
    /\ now' = now + 1
    /\ res' = [p \in Procs |-> NoRes]
    /\ UNCHANGED <<config, users, ledger, excel, pc, loc, fails, passes, made, issued,
                   revoked>>

\* The clock moves on by whole days.
Sleep(days) ==
    /\ now + days * DayLen <= MaxTime
    /\ now' = now + days * DayLen
    /\ res' = [p \in Procs |-> NoRes]
    /\ UNCHANGED <<config, users, ledger, excel, pc, loc, fails, passes, made, issued,
                   revoked>>

(* --------------------------- the Excel mirror -------------------------- *)
\* excelService.addUserToExcel: read the sheet, push, write it back.
AddUserToExcel(sheet, data) ==
    Append(sheet, [email |-> data.email, password |-> data.password,
                   role |-> data.role, status |-> data.status])

\* readUsersFromExcel: "role: user.role || 'user'", "status: user.status || 'active'".
ReadUsersFromExcel(sheet) ==
    [k \in 1..Len(sheet) |->
        [sheet[k] EXCEPT !.role = IF @ = "" THEN "user" ELSE @,
                         !.status = IF @ = "" THEN "active" ELSE @]]

\* updateUserInExcel: the first row with that email takes the fields supplied.
UpdateUserInExcel(sheet, email, data) ==
    IF \E k \in 1..Len(sheet) : sheet[k].email = email
    THEN LET k == CHOOSE j \in 1..Len(sheet) :
                    sheet[j].email = email /\ \A m \in 1..(j - 1) : sheet[m].email # email
         IN [sheet EXCEPT ![k] =
                [f \in DOMAIN sheet[k] |-> IF f \in DOMAIN data THEN data[f] ELSE sheet[k][f]]]
    ELSE sheet

(* ----------------------------- updateUser ------------------------------ *)
UserReply(op, status, message, user) ==
    [NoRes EXCEPT !.op = op, !.status = status, !.message = message,
                  !.user = user, !.at = now]

\* canModifyUser: the caller is read from the database; an admin may modify
\* anyone, a user only their own row.
UpdateAuth(p, actorId, targetId, body) ==
    /\ Idle(p)
    /\ LET id == FindById(actorId) IN
       IF id = 0
       THEN Reply(p, UserReply("update", 404, "Current user not found.", NoUser))
       ELSE IF Row(id).status # "active"
       THEN Reply(p, UserReply("update", 403, "Access denied. User is inactive.", NoUser))
       ELSE IF Row(id).role = "admin" \/ id = targetId
       THEN Goto(p, "updLoad", [NoLoc EXCEPT !.actor = Row(id), !.i = targetId,
                                             !.body = body])
       ELSE Reply(p, UserReply("update", 403, "Access denied.", NoUser))
    /\ UNCHANGED <<now, config, users, ledger, excel, fails, passes, made, issued, revoked>>

\* updateUser, up to the duplicate-email check.
UpdateLoad(p) ==
    /\ pc[p] = "updLoad"
    /\ LET id == FindById(loc[p].i)
           body == loc[p].body
       IN IF id = 0
          THEN Reply(p, UserReply("update", 404, "User not found", NoUser))
          ELSE IF /\ "email" \in DOMAIN body
                  /\ body.email # Row(id).email
                  /\ FindByEmail(body.email) # 0
          THEN Reply(p, UserReply("update", 400, MsgExists, Row(id)))
          ELSE Goto(p, "updWrite", [loc[p] EXCEPT !.user = Row(id)])
    /\ UNCHANGED <<now, config, users, ledger, excel, fails, passes, made, issued, revoked>>

\* Mutant of AllowedBody: the body goes to User.update as it came.
AllowedBodyAll(body, actor) == body

\* "delete updateData.role / .status" unless the caller is an admin.
AllowedBody(body, actor) ==
    IF actor.role = "admin" THEN body
    ELSE [f \in DOMAIN body \ {"role", "status"} |-> body[f]]

\* The copy of the body written to the sheet: the password hashed.
ExcelBody(body) ==
    [f \in DOMAIN body |-> IF f = "password" THEN BcryptHash(body[f]) ELSE body[f]]

\* updateUser, from targetUser.update to the response.
UpdateWrite(p) ==
    /\ pc[p] = "updWrite"
    /\ LET body == AllowedBody(loc[p].body, loc[p].actor)
           upd == UserUpdate(users, loc[p].user.id, body)
       IN IF upd.error
          THEN /\ Reply(p, [UserReply("update", 500, MsgServer, loc[p].user)
                               EXCEPT !.error = "UNIQUE constraint failed: users.email"])
               /\ UNCHANGED <<users, excel>>
          ELSE IF ~upd.ok
          THEN /\ Reply(p, UserReply("update", 400, "Failed to update user", loc[p].user))
               /\ UNCHANGED <<users, excel>>
          ELSE /\ users' = upd.table
               /\ excel' = UpdateUserInExcel(excel, loc[p].user.email, ExcelBody(body))
               /\ Reply(p, UserReply("update", 200, "User updated successfully", loc[p].user))
    /\ fails' = IF "loginAttempts" \in DOMAIN AllowedBody(loc[p].body, loc[p].actor)
                THEN [fails EXCEPT ![loc[p].user.id] = loc[p].body.loginAttempts]
                ELSE fails
    /\ UNCHANGED <<now, config, ledger, passes, made, issued, revoked>>


(* ----------------------------- createUser ------------------------------ *)
\* createUser, up to 'if (existingUser)'.
CreateFind(p, data) ==
    /\ Idle(p)
    /\ Len(users) + Cardinality({q \in Procs : pc[q] \in {"insert", "syncCreate"}}) < MaxUsers
    /\ IF FindByEmail(data.email) # 0
       THEN Reply(p, [UserReply("create", 400, MsgExists, NoUser)
                         EXCEPT !.email = data.email])
       ELSE Goto(p, "insert", [NoLoc EXCEPT !.email = data.email, !.pw = data.password,
                                            !.body = data])
    /\ UNCHANGED <<now, config, users, ledger, excel, fails, passes, made, issued, revoked>>

\* createUser: 'await User.create(...)'; a rejected INSERT is caught as a 500.
CreateInsert(p) ==
    /\ pc[p] = "insert"
    /\ LET made1 == UserCreate(users, loc[p].body) IN
       IF made1.ok
       THEN /\ users' = made1.table
            /\ Goto(p, "mirror", [loc[p] EXCEPT !.i = made1.id])
       ELSE /\ users' = users
            /\ Reply(p, [UserReply("create", 500, MsgServer, NoUser)
                            EXCEPT !.error = "UNIQUE constraint failed: users.email",
                                   !.email = loc[p].email])
    /\ UNCHANGED <<now, config, ledger, excel, fails, passes, made, issued, revoked>>

\* createUser, from findById to the response: the sheet gets its own hash.
CreateMirror(p) ==
    /\ pc[p] = "mirror"
    /\ excel' = AddUserToExcel(excel,
                   [loc[p].body EXCEPT !.password = BcryptHash(@),
                                       !.role = IF @ = "" THEN "user" ELSE @,
                                       !.status = IF @ = "" THEN "active" ELSE @])
    /\ Reply(p, [UserReply("create", 201, MsgCreated, Row(FindById(loc[p].i)))
                    EXCEPT !.email = loc[p].email])
    /\ UNCHANGED <<now, config, users, ledger, fails, passes, made, issued, revoked>>

(* ------------------- syncUsersFromExcel / initializeUsersFromExcel ------ *)
\* The loop moves to the next record, or ends in the response.
SyncAdvance(p, l) ==
    IF l.i < Len(l.recs)
    THEN /\ Goto(p, "syncFind", [l EXCEPT !.i = @ + 1])
         /\ UNCHANGED passes
    ELSE /\ passes' = Append(passes, [recs |-> l.recs, added |-> l.added, after |-> l.at,
                                      by |-> p, errors |-> l.errors, seen |-> l.i])
         /\ Reply(p, [UserReply("sync", 200, MsgSync, NoUser)
                         EXCEPT !.added = l.added, !.errors = l.errors])

\* readUsersFromExcel, once, before the loop.
SyncRead(p) ==
    /\ Idle(p)
    /\ Len(passes) + Cardinality({q \in Procs : pc[q] \in {"syncFind", "syncCreate"}})
          < MaxPasses
    /\ LET l == [NoLoc EXCEPT !.recs = ReadUsersFromExcel(excel), !.i = 0,
                              !.at = Len(passes), !.users0 = users]
       IN SyncAdvance(p, l)
    /\ UNCHANGED <<now, config, users, ledger, excel, fails, made, issued, revoked>>

\* Mutant of SyncWanted: the password of the record is not looked at.
SyncWantedAnyPassword(existing, rec) ==
    existing = 0 /\ rec.email # ""

\* 'if (!existingUser && excelUser.email && excelUser.password)'
SyncWanted(existing, rec) ==
    existing = 0 /\ rec.email # "" /\ rec.password # NoPassword

\* The loop body up to the condition: 'await User.findByEmail(excelUser.email)'.
SyncFind(p) ==
    /\ pc[p] = "syncFind"
    /\ LET rec == loc[p].recs[loc[p].i] IN
       IF SyncWanted(FindByEmail(rec.email), rec)
       THEN /\ Len(users) + Cardinality({q \in Procs : pc[q] \in {"insert", "syncCreate"}})
                  < MaxUsers
            /\ Goto(p, "syncCreate", loc[p])
            /\ UNCHANGED passes
       ELSE SyncAdvance(p, loc[p])
    /\ UNCHANGED <<now, config, users, ledger, excel, fails, made, issued, revoked>>

\* The record as the loop hands it to User.create.
SyncData(rec) ==
    [email |-> rec.email, password |-> rec.password,
     role |-> IF rec.role = "" THEN "user" ELSE rec.role,
     status |-> IF rec.status = "" THEN "active" ELSE rec.status]

\* Mutant of SyncCreate: the rejected INSERT reaches the outer catch and
\* ends the pass with a 500.
SyncCreateAborting(p) ==
    /\ pc[p] = "syncCreate"
    /\ LET rec == loc[p].recs[loc[p].i]
           made1 == UserCreate(users, SyncData(rec))
       IN IF made1.ok
          THEN /\ users' = made1.table
               /\ made' = Append(made, [id |-> made1.id, rec |-> rec, by |-> p,
                                        pass |-> loc[p].at, i |-> loc[p].i])
               /\ SyncAdvance(p, [loc[p] EXCEPT !.added = @ + 1])
          ELSE /\ UNCHANGED <<users, made, passes>>
               /\ Reply(p, [UserReply("sync", 500, MsgServer, NoUser)
                               EXCEPT !.error = "UNIQUE constraint failed: users.email"])
    /\ UNCHANGED <<now, config, ledger, excel, fails, issued, revoked>>

\* The loop body from 'await User.create(...)': the count, or the caught error.
SyncCreate(p) ==
    /\ pc[p] = "syncCreate"
    /\ LET rec == loc[p].recs[loc[p].i]
           made1 == UserCreate(users, SyncData(rec))
       IN IF made1.ok
          THEN /\ users' = made1.table
               /\ made' = Append(made, [id |-> made1.id, rec |-> rec, by |-> p,
                                        pass |-> loc[p].at, i |-> loc[p].i])
               /\ SyncAdvance(p, [loc[p] EXCEPT !.added = @ + 1])
          ELSE /\ UNCHANGED <<users, made>>
               /\ SyncAdvance(p, [loc[p] EXCEPT !.errors =
                      Append(@, [email |-> rec.email,
                                 error |-> "UNIQUE constraint failed: users.email"])])
    /\ UNCHANGED <<now, config, ledger, excel, fails, issued, revoked>>


(* ------------------------------ refresh -------------------------------- *)
TokenReply(op, status, message, token) ==
    [NoRes EXCEPT !.op = op, !.status = status, !.message = message,
                  !.arg = token, !.at = now]

\* refreshToken, up to jwt.verify; NoToken is a body without refreshToken.
RefreshVerify(p, token) ==
    /\ Idle(p)
    /\ IF token = NoToken
       THEN Reply(p, TokenReply("refresh", 401, MsgNoToken, token))
       ELSE IF ~JwtVerify(token, "refresh", now)
       THEN Reply(p, TokenReply("refresh", 401, MsgBadToken, token))
       ELSE Goto(p, "rfLedger", [NoLoc EXCEPT !.refresh = token, !.at = now])
    /\ UNCHANGED <<now, config, users, ledger, excel, fails, passes, made, issued, revoked>>

\* refreshToken: 'await validateRefreshToken(refreshToken, decoded.id)'.
RefreshLedger(p) ==
    /\ pc[p] = "rfLedger"
    /\ IF ~ValidateRefreshToken(ledger, loc[p].refresh, loc[p].refresh.uid, now)
       THEN Reply(p, TokenReply("refresh", 401, MsgBadToken, loc[p].refresh))
       ELSE Goto(p, "rfUser", loc[p])
    /\ UNCHANGED <<now, config, users, ledger, excel, fails, passes, made, issued, revoked>>

\* Mutant of RefreshUser: the refresh token is used up, its rows are deleted.
RefreshUserRotating(p) ==
    /\ pc[p] = "rfUser"
    /\ LET id == FindById(loc[p].refresh.uid) IN
       IF id = 0 \/ users[id].status # "active"
       THEN /\ Reply(p, TokenReply("refresh", 401, MsgNoUser, loc[p].refresh))
            /\ ledger' = ledger
       ELSE /\ Reply(p, [TokenReply("refresh", 200, MsgRefreshed, loc[p].refresh)
                            EXCEPT !.access = SignAccess(Row(id), now), !.user = Row(id)])
            /\ ledger' = SelectSeq(ledger, LAMBDA row : row.token # loc[p].refresh)
    /\ UNCHANGED <<now, config, users, excel, fails, passes, made, issued, revoked>>

\* Mutant of RefreshUser: the access token is minted from the claims of the
\* refresh token, the identity is not fetched.
RefreshUserFromClaims(p) ==
    /\ pc[p] = "rfUser"
    /\ Reply(p, [TokenReply("refresh", 200, MsgRefreshed, loc[p].refresh)
                    EXCEPT !.access = [loc[p].refresh EXCEPT !.key = "access", !.iat = now,
                                                             !.exp = now + config.expiresIn,
                                                             !.role = "user"]])
    /\ UNCHANGED <<now, config, users, ledger, excel, fails, passes, made, issued, revoked>>

\* refreshToken, from 'await User.findById(decoded.id)' to the response.
RefreshUser(p) ==
    /\ pc[p] = "rfUser"
    /\ LET id == FindById(loc[p].refresh.uid) IN
       IF id = 0 \/ users[id].status # "active"
       THEN Reply(p, TokenReply("refresh", 401, MsgNoUser, loc[p].refresh))
       ELSE Reply(p, [TokenReply("refresh", 200, MsgRefreshed, loc[p].refresh)
                         EXCEPT !.access = SignAccess(Row(id), now), !.user = Row(id)])
    /\ UNCHANGED <<now, config, users, ledger, excel, fails, passes, made, issued, revoked>>

(* ------------------------------- logout -------------------------------- *)
\* logout: 'if (refreshToken) await removeRefreshToken(refreshToken)'.
Logout(p, token) ==
    /\ Idle(p)
    /\ ledger' = IF token # NoToken THEN RemoveRefreshToken(ledger, token) ELSE ledger
    /\ revoked' = IF token # NoToken THEN revoked \cup {token} ELSE revoked
    /\ Reply(p, [TokenReply("logout", 200, MsgLogout, token)
                    EXCEPT !.removed = token # NoToken /\ RemovesSome(ledger, token)])
    /\ UNCHANGED <<now, config, users, excel, fails, passes, made, issued>>


(* --------------------------- store failures --------------------------- *)
\* The err a sqlite3 callback hands over when the statement cannot run; the
\* statement is named so that the responses can be told apart.
StoreError(statement) == "SQLITE_ERROR: " \o statement

\* What a catch block that answers 500 sends: 'Server error' and error.message.
ServerError(op, statement) ==
    [NoRes EXCEPT !.op = op, !.status = 500, !.message = MsgServer,
                  !.error = StoreError(statement), !.at = now, !.faulted = TRUE]

\* login: User.findByEmail rejects; the catch answers 500.
LoginFindFails(p, email, pw) ==
    /\ Idle(p)
    /\ Reply(p, [ServerError("login", "SELECT users") EXCEPT !.pw = pw])
    /\ UNCHANGED <<now, config, users, ledger, excel, fails, passes, made, issued, revoked>>

\* login: the UPDATE of incrementLoginAttempts or of resetLoginAttempts rejects.
LoginVerifyFails(p) ==
    /\ pc[p] = "verify"
    /\ ~VerifyPassword(loc[p].user, loc[p].pw) \/ loc[p].user.loginAttempts > 0
    /\ Reply(p, [ServerError("login", "UPDATE users")
                    EXCEPT !.pw = loc[p].pw, !.user = loc[p].user])
    /\ UNCHANGED <<now, config, users, ledger, excel, fails, passes, made, issued, revoked>>

\* Mutant of LoginStoreFails: the rejection of the INSERT is not awaited, the
\* response goes out with the tokens.
LoginStoreSwallows(p) ==
    /\ pc[p] = "store"
    /\ Reply(p, [LoginReply(200, MsgLoginOk, loc[p].user, loc[p].pw)
                    EXCEPT !.access = loc[p].access, !.refresh = loc[p].refresh,
                           !.faulted = TRUE])
    /\ UNCHANGED <<now, config, users, ledger, excel, fails, passes, made, issued, revoked>>

\* login: storeRefreshToken rejects; the tokens signed are dropped, the
\* catch answers 500.
LoginStoreFails(p) ==
    /\ pc[p] = "store"
    /\ Reply(p, [ServerError("login", "INSERT refresh_tokens")
                    EXCEPT !.pw = loc[p].pw, !.user = loc[p].user])
    /\ UNCHANGED <<now, config, users, ledger, excel, fails, passes, made, issued, revoked>>

\* What refreshToken's catch block sends for any error thrown in its try.
RefreshCaught(token) ==
    [TokenReply("refresh", 401, MsgBadToken, token) EXCEPT !.faulted = TRUE]

\* refreshToken: validateRefreshToken rejects.
RefreshLedgerFails(p) ==
    /\ pc[p] = "rfLedger"
    /\ Reply(p, RefreshCaught(loc[p].refresh))
    /\ UNCHANGED <<now, config, users, ledger, excel, fails, passes, made, issued, revoked>>

\* refreshToken: User.findById rejects.
RefreshUserFails(p) ==
    /\ pc[p] = "rfUser"
    /\ Reply(p, RefreshCaught(loc[p].refresh))
    /\ UNCHANGED <<now, config, users, ledger, excel, fails, passes, made, issued, revoked>>

\* logout: removeRefreshToken rejects; the catch answers 500.
LogoutFails(p, token) ==
    /\ Idle(p)
    /\ token # NoToken
    /\ Reply(p, [ServerError("logout", "DELETE refresh_tokens") EXCEPT !.arg = token])
    /\ UNCHANGED <<now, config, users, ledger, excel, fails, passes, made, issued, revoked>>

(* ---------------------------- initial states --------------------------- *)
AnaEmail == "ana@example.com"
AnaPlain == "Ana12345!"
BobEmail == "bob@example.com"
BobPlain == "Bob12345!"
ZoeEmail == "zoe@example.com"
WrongPlain == "Wrong123!"

AdminData == [email |-> AdminEmail, password |-> Plain(AdminPlain),
              role |-> "admin", status |-> "active"]

UserData(email, text, status) ==
    [email |-> email, password |-> Plain(text), role |-> "", status |-> status]

\* createDefaultAdmin on an empty table: the row, and its copy in the sheet.
AdminOnly == UserCreate(<<>>, AdminData).table

AdminSheet == AddUserToExcel(<<>>, [AdminData EXCEPT !.password = BcryptHash(@)])

\* The table after the admin has then created one user through createUser.
WithAna(status) == UserCreate(AdminOnly, UserData(AnaEmail, AnaPlain, status)).table

AnaSheet(status) ==
    AddUserToExcel(AdminSheet,
        [email |-> AnaEmail, password |-> BcryptHash(Plain(AnaPlain)),
         role |-> "user", status |-> status])

\* process.env.MAX_LOGIN_ATTEMPTS, LOCKOUT_TIME, JWT_EXPIRES_IN,
\* JWT_REFRESH_EXPIRES_IN: what the operator may set them to, in instants.
Configs(thresholds, refreshDays) ==
    [maxLoginAttempts : thresholds, lockoutTime : {DayLen},
     expiresIn : {1}, refreshExpiresIn : {d * DayLen : d \in refreshDays}]

InitCommon ==
    /\ now = 0
    /\ ledger = <<>>
    /\ pc = [p \in Procs |-> "idle"]
    /\ loc = [p \in Procs |-> NoLoc]
    /\ res = [p \in Procs |-> NoRes]
    /\ fails = [i \in 1..MaxUsers |-> 0]
    /\ passes = <<>>
    /\ made = <<>>
    /\ issued = <<>>
    /\ revoked = {}

(* --------- sequential logins against one account (lockout) ------------- *)
InitLockout ==
    /\ InitCommon
    /\ config \in Configs({1, 2, 3}, {LedgerDays})
    /\ \E status \in {"active", "inactive"} :
          users = WithAna(status) /\ excel = AnaSheet(status)

\* One request at a time, and the clock moves between requests.
NextLockout ==
    \/ \E email \in {AnaEmail, ZoeEmail}, text \in {AnaPlain, WrongPlain} :
          AllIdle /\ LoginFind("p1", email, Plain(text))
    \/ LoginVerify("p1")
    \/ LoginStore("p1")
    \/ \E status \in {"active", "inactive"} :
          AllIdle /\ UpdateAuth("p1", 1, 2, [status |-> status])
    \/ UpdateLoad("p1")
    \/ UpdateWrite("p1")
    \/ AllIdle /\ now < MaxTick /\ Tick

SpecLockout == InitLockout /\ [][NextLockout]_vars


(* ------------------------------- C1 ------------------------------------ *)
\* The login responses that answer a wrong password for a known identity.
WrongPasswordReply(r) ==
    r.op = "login" /\ r.user # NoUser /\ ~BcryptCompare(r.pw, r.user.password)

\* What one more failed attempt makes of the row the login found.
FailedAttemptDone(r, active) ==
    LET pre == r.user
        post == users[pre.id]
        T == config.maxLoginAttempts
    IN (/\ WrongPasswordReply(r)
        /\ active => pre.status = "active"
        /\ ~IsLocked(pre, r.at))
       => /\ post.loginAttempts = pre.loginAttempts + 1
          /\ post.loginAttempts < T => post.lockedUntil = Null
          /\ post.loginAttempts >= T =>
                /\ post.lockedUntil # Null
                /\ ParseDate(post.lockedUntil) = r.at + config.lockoutTime

\* A login made while the lock is running is answered 423, whatever the password.
LockedRejected(r, active) ==
    (/\ r.op = "login"
     /\ r.user # NoUser
     /\ active => r.user.status = "active"
     /\ r.user.lockedUntil # Null
     /\ r.at < ParseDate(r.user.lockedUntil))
    => r.status = 423 /\ r.message = MsgLocked /\ users[r.user.id] = r.user

\* C1 as amended: for every ACTIVE identity and every threshold T >= 1, each
\* login call with a wrong password made while the identity is not locked
\* increments the counter by one, so T consecutive ones from 0 count 1..T;
\* the one that reaches T sets lockedUntil = now + lockout duration; and every
\* login call made before lockedUntil elapses returns AccountLocked (423),
\* whether the password is correct or not, and changes nothing.
C1_Lockout ==
    \A p \in Procs :
        /\ FailedAttemptDone(res[p], TRUE)
        /\ LockedRejected(res[p], TRUE)
        /\ \A i \in 1..Len(users) : users[i].loginAttempts = fails[i]

\* The T-th wrong password has locked the account, and a login with the
\* correct password made during the lock was answered 423.
C1_Witness ==
    /\ config.maxLoginAttempts = 3
    /\ res["p1"].op = "login"
    /\ res["p1"].status = 423
    /\ res["p1"].pw = Plain(AnaPlain)
    /\ users[2].loginAttempts = 3
    /\ users[2].status = "active"
    /\ now < ParseDate(users[2].lockedUntil)

\* C1 as stated, for every identity: an inactive identity refutes it.
C1_Original ==
    \A p \in Procs :
        /\ FailedAttemptDone(res[p], FALSE)
        /\ LockedRejected(res[p], FALSE)


(* ------ sequential logins and profile updates against one account ------ *)
\* Request bodies of PUT /users/:id that validateUserUpdate lets through: it
\* checks the six fields it names and leaves every other key of the body alone.
UpdateBodies ==
    {[status |-> "inactive"], [status |-> "active"],
     [lockedUntil |-> ToISOString(1)],
     [loginAttempts |-> 0, lockedUntil |-> Null]}

InitAccount ==
    /\ InitCommon
    /\ config \in Configs({2}, {LedgerDays})
    /\ users = WithAna("active")
    /\ excel = AnaSheet("active")

NextAccount ==
    \/ \E text \in {AnaPlain, WrongPlain} :
          AllIdle /\ LoginFind("p1", AnaEmail, Plain(text))
    \/ LoginVerify("p1")
    \/ LoginStore("p1")
    \/ \E actor \in {1, 2}, body \in UpdateBodies :
          AllIdle /\ UpdateAuth("p1", actor, 2, body)
    \/ UpdateLoad("p1")
    \/ UpdateWrite("p1")
    \/ AllIdle /\ now < MaxTick /\ Tick

SpecAccount == InitAccount /\ [][NextAccount]_vars

(* ------------------------------- C2 ------------------------------------ *)
\* C2: after every login call that returns tokens, the stored identity has
\* failedLoginCount = 0 and lockedUntil unset, whatever they were before.
C2_SuccessResets ==
    \A p \in Procs :
        (res[p].op = "login" /\ res[p].status = 200)
        => /\ users[res[p].user.id].loginAttempts = 0
           /\ users[res[p].user.id].lockedUntil = Null


(* ------------- sequential login, refresh and logout (sessions) --------- *)
\* A token whose signature does not verify under either secret.
Tampered(token) == [token EXCEPT !.key = "forged"]

\* What a caller may send as refreshToken: a token a login handed out, the
\* same with a signature that does not verify, or nothing.
TokensAtHand ==
    {issued[k] : k \in 1..Len(issued)} \cup {Tampered(issued[k]) : k \in 1..Len(issued)}
        \cup {NoToken}

InitSession ==
    /\ InitCommon
    /\ config \in Configs({2}, {LedgerDays, LedgerDays + 2})
    /\ users = WithAna("active")
    /\ excel = AnaSheet("active")

NextSession ==
    \/ AllIdle /\ LoginFind("p1", AnaEmail, Plain(AnaPlain))
    \/ LoginVerify("p1")
    \/ LoginStore("p1")
    \/ \E token \in TokensAtHand : AllIdle /\ RefreshVerify("p1", token)
    \/ RefreshLedger("p1")
    \/ RefreshUser("p1")
    \/ \E token \in TokensAtHand : AllIdle /\ Logout("p1", token)
    \/ \E status \in {"active", "inactive"} :
          AllIdle /\ UpdateAuth("p1", 1, 2, [status |-> status])
    \/ UpdateLoad("p1")
    \/ UpdateWrite("p1")
    \/ AllIdle /\ now % DayLen = 0 /\ Tick
    \/ AllIdle /\ now < DayLen /\ Sleep(LedgerDays)
    \/ AllIdle /\ now >= LedgerDays * DayLen /\ Sleep(1)

SpecSession == InitSession /\ [][NextSession]_vars


(* ------------------------------- C3 ------------------------------------ *)
\* The ledger holds a row for the token and its claimed user id whose expiry
\* is later than instant t.
LedgerHoldsUnexpired(token, t) ==
    \E k \in 1..Len(ledger) :
        /\ ledger[k].token = token
        /\ ledger[k].userId = token.uid
        /\ ParseDate(ledger[k].expiresAt) > t

\* C3: refresh returns a new access token if and only if the token is validly
\* signed with the refresh secret, not expired by its own claim, and the
\* ledger holds a record for it and its user id whose expiry is in the future.
C3_RefreshIff ==
    \A p \in Procs :
        res[p].op = "refresh" =>
            ((res[p].status = 200 /\ res[p].access # NoToken)
             <=> (/\ JwtVerify(res[p].arg, "refresh", res[p].at)
                  /\ LedgerHoldsUnexpired(res[p].arg, res[p].at)))

(* ------------------------------- C4 ------------------------------------ *)
\* C4: once logout(token) has completed, every later refresh call with that
\* token fails with 'Invalid refresh token'.
C4_RevokedStaysRevoked ==
    \A p \in Procs :
        (res[p].op = "refresh" /\ res[p].arg \in revoked)
        => res[p].status = 401 /\ res[p].message = MsgBadToken

(* ------------------------------- C5 ------------------------------------ *)
\* C5: logout answers success whether the token is in the ledger, was already
\* removed, was never issued, or is missing; and it leaves no row of that
\* token behind, so that a second logout with it finds the ledger as the
\* first one left it.
C5_LogoutIdempotent ==
    \A p \in Procs :
        res[p].op = "logout" =>
            /\ res[p].status = 200
            /\ res[p].message = MsgLogout
            /\ \A k \in 1..Len(ledger) : ledger[k].token # res[p].arg
            /\ ~res[p].removed => RemoveRefreshToken(ledger, res[p].arg) = ledger

\* A second logout with a token a login handed out: nothing was left to
\* remove, other sessions are still in the ledger, and it answered success.
C5_Witness ==
    /\ res["p1"].op = "logout"
    /\ res["p1"].status = 200
    /\ res["p1"].arg \in {issued[k] : k \in 1..Len(issued)}
    /\ res["p1"].arg \in revoked
    /\ ~res["p1"].removed
    /\ Len(ledger) > 0


(* ------------- concurrent logins against one account (race) ------------ *)
InitRace ==
    /\ InitCommon
    /\ config \in Configs({2, 3}, {LedgerDays})
    /\ users = WithAna("active") /\ excel = AnaSheet("active")

\* Two requests may be in flight at once: each await is a point where the
\* other handler runs.
NextRace ==
    \/ \E p \in Procs, text \in {AnaPlain, WrongPlain} :
          LoginFind(p, AnaEmail, Plain(text))
    \/ \E p \in Procs : LoginVerify(p)
    \/ \E p \in Procs : LoginStore(p)
    \/ AllIdle /\ now < MaxTick /\ Tick

SpecRace == InitRace /\ [][NextRace]_vars

(* ------------------------------- C6 ------------------------------------ *)
\* C6: when the login calls that took the failed-attempt transition have all
\* answered (and no login has succeeded), the stored counter of each identity
\* equals its initial value 0 plus the number of those calls, and the identity
\* is locked if that number reaches the threshold.
C6_NoLostUpdate ==
    (AllIdle /\ Len(issued) = 0) =>
        \A i \in 1..Len(users) :
            /\ users[i].loginAttempts = fails[i]
            /\ fails[i] >= config.maxLoginAttempts => users[i].lockedUntil # Null

(* ---------------------- concurrent createUser calls -------------------- *)
InitCreate ==
    /\ InitCommon
    /\ config \in Configs({3}, {LedgerDays})
    /\ users = AdminOnly /\ excel = AdminSheet

NextCreate ==
    \/ \E p \in Procs, email \in {AnaEmail, BobEmail}, text \in {AnaPlain, BobPlain} :
          CreateFind(p, UserData(email, text, ""))
    \/ \E p \in Procs : CreateInsert(p)
    \/ \E p \in Procs : CreateMirror(p)

SpecCreate == InitCreate /\ [][NextCreate]_vars

(* ------------------------------- C7 ------------------------------------ *)
\* The create call of p has inserted its row.
Created(p) ==
    \/ pc[p] = "mirror"
    \/ res[p].op = "create" /\ res[p].status = 201

CreateEmail(p) == IF pc[p] = "mirror" THEN loc[p].email ELSE res[p].email

\* The failure of a create call whose email is taken: the 400 of the
\* existence check, or the rejection of the INSERT by the UNIQUE constraint.
DuplicateEmail(r) ==
    \/ r.status = 400 /\ r.message = MsgExists
    \/ r.status = 500 /\ r.error = "UNIQUE constraint failed: users.email"

\* C7: no two identities share an email; of the create calls with one email,
\* concurrent or not, at most one inserts a row; every other one fails with
\* DuplicateEmail and exactly one identity has that email.
C7_EmailUnique ==
    /\ \A i, j \in 1..Len(users) : users[i].email = users[j].email => i = j
    /\ \A p, q \in Procs :
          (Created(p) /\ Created(q) /\ CreateEmail(p) = CreateEmail(q)) => p = q
    /\ \A p \in Procs :
          (res[p].op = "create" /\ res[p].status # 201) =>
              /\ DuplicateEmail(res[p])
              /\ Cardinality({i \in 1..Len(users) : users[i].email = res[p].email}) = 1

\* Two create calls with one email passed the existence check together: one
\* answered 201, the other was rejected by the constraint.
C7_Witness ==
    /\ AllIdle
    /\ res["p1"].op = "create" /\ res["p1"].status = 201
    /\ res["p2"].op = "create" /\ res["p2"].status = 500
    /\ res["p2"].error = "UNIQUE constraint failed: users.email"
    /\ res["p1"].email = res["p2"].email
    /\ Cardinality({i \in 1..Len(users) : users[i].email = res["p1"].email}) = 1


(* --------------- reconciliation of the sheet with the table ------------ *)
\* Rows an operator may have put in the sheet: hashed passwords, a status
\* that differs from the one createUser gives, a blank email, a blank password.
AnaRec == [email |-> AnaEmail, password |-> BcryptHash(Plain(AnaPlain)),
           role |-> "", status |-> "inactive"]
BobRec == [email |-> BobEmail, password |-> BcryptHash(Plain(BobPlain)),
           role |-> "admin", status |-> ""]
NoEmailRec == [email |-> "", password |-> BcryptHash(Plain(BobPlain)),
               role |-> "", status |-> ""]
NoPasswordRec == [email |-> ZoeEmail, password |-> NoPassword, role |-> "", status |-> ""]

SheetRows == {AnaRec, BobRec, NoEmailRec, NoPasswordRec}

\* The table after createDefaultAdmin; the sheet with the admin's row and up
\* to two more rows, the same row twice included.
InitSync ==
    /\ InitCommon
    /\ config \in Configs({3}, {LedgerDays})
    /\ users = AdminOnly
    /\ \E extra \in {<<>>} \cup {<<r>> : r \in SheetRows}
                           \cup {<<r1, r2>> : r1 \in SheetRows, r2 \in SheetRows} :
          excel = AdminSheet \o extra

\* A step of a reconciliation pass: initializeUsersFromExcel at startup and
\* syncUsersFromExcel on demand run the same loop.
SyncStep == \E p \in Procs : SyncRead(p) \/ SyncFind(p) \/ SyncCreate(p)

NextSync ==
    \/ \E p \in Procs : SyncRead(p)
    \/ \E p \in Procs : SyncFind(p)
    \/ \E p \in Procs : SyncCreate(p)
    \/ \E p \in Procs : CreateFind(p, UserData(AnaEmail, AnaPlain, ""))
    \/ \E p \in Procs : CreateInsert(p)
    \/ \E p \in Procs : CreateMirror(p)

SpecSync == InitSync /\ [][NextSync]_vars

(* ------------------------------- C8 ------------------------------------ *)
\* C8: reconcile creates each identity at most once, and a pass that starts
\* after a pass over the same record set has ended adds nothing and reports
\* a count of 0, also when the record set holds one email more than once.
C8_SyncIdempotent ==
    /\ \A m, n \in 1..Len(made) : made[m].rec.email = made[n].rec.email => m = n
    /\ \A i, j \in 1..Len(passes) :
          (i < j /\ passes[j].after >= i /\ passes[j].recs = passes[i].recs)
          => passes[j].added = 0

\* Two passes in sequence over a record set that holds one email twice: the
\* first created that identity once, the second added nothing.
C8_Witness ==
    /\ Len(passes) = 2
    /\ passes[2].after >= 1
    /\ passes[2].recs = passes[1].recs
    /\ passes[1].added = 1
    /\ passes[2].added = 0
    /\ \E a, b \in 1..Len(passes[1].recs) :
          /\ a # b
          /\ passes[1].recs[a].email = passes[1].recs[b].email
          /\ \E m \in 1..Len(made) : made[m].rec.email = passes[1].recs[a].email

(* ------------------------------- C9 ------------------------------------ *)
\* C9: for every identity reconcile created, the stored password is exactly
\* the password value of its sheet record, so the user whose record holds
\* hash(p) logs in with p.
C9_NoRehash ==
    \A m \in 1..Len(made) :
        /\ users[made[m].id].password = made[m].rec.password
        /\ \A text \in {AnaPlain, BobPlain} :
              made[m].rec.password = BcryptHash(Plain(text))
              => VerifyPassword(users[made[m].id], Plain(text))

(* ------------------------------- C10 ----------------------------------- *)
\* C10: a step of reconcile deletes no identity and leaves every identity
\* that is in the table unchanged in all its fields.
C10_AddOnly ==
    [][SyncStep => /\ Len(users') >= Len(users)
                   /\ \A i \in 1..Len(users) : users'[i] = users[i]]_vars

\* A pass has ended that added an identity and whose record set held a row
\* for an identity createUser had made, with another status than the stored
\* one: the stored row kept its own.
C10_Witness ==
    \E k \in 1..Len(passes) :
        /\ passes[k].added >= 1
        /\ \E r \in 1..Len(passes[k].recs), i \in 1..Len(users) :
              /\ users[i].email = passes[k].recs[r].email
              /\ users[i].status # passes[k].recs[r].status
              /\ users[i].role = "user"
              /\ \A m \in 1..Len(made) : made[m].id # i


(* ------------- sessions over a store whose statements may fail --------- *)
InitFault ==
    /\ InitCommon
    /\ config \in Configs({2}, {LedgerDays})
    /\ users = WithAna("active")
    /\ excel = AnaSheet("active")

\* One request at a time; any statement a handler awaits may fail.
NextFault ==
    \/ \E text \in {AnaPlain, WrongPlain} :
          AllIdle /\ LoginFind("p1", AnaEmail, Plain(text))
    \/ \E text \in {AnaPlain, WrongPlain} :
          AllIdle /\ LoginFindFails("p1", AnaEmail, Plain(text))
    \/ LoginVerify("p1")
    \/ LoginVerifyFails("p1")
    \/ LoginStore("p1")
    \/ LoginStoreFails("p1")
    \/ \E token \in TokensAtHand : AllIdle /\ RefreshVerify("p1", token)
    \/ RefreshLedger("p1")
    \/ RefreshLedgerFails("p1")
    \/ RefreshUser("p1")
    \/ RefreshUserFails("p1")
    \/ \E token \in TokensAtHand : AllIdle /\ Logout("p1", token)
    \/ \E token \in TokensAtHand : AllIdle /\ LogoutFails("p1", token)
    \/ AllIdle /\ now < DayLen /\ Tick

SpecFault == InitFault /\ [][NextFault]_vars

(* ------------------------------- C11 ----------------------------------- *)
\* C11: a login response carries tokens only if the ledger write for its
\* refresh token succeeded; when storing the refresh token fails, the login
\* answers a failure with neither an access token nor a refresh token.
C11_TokensOnlyAfterStore ==
    \A p \in Procs :
        res[p].op = "login" =>
            /\ (res[p].access # NoToken \/ res[p].refresh # NoToken) =>
                  /\ res[p].status = 200
                  /\ ~res[p].faulted
                  /\ \E k \in 1..Len(issued) : issued[k] = res[p].refresh
            /\ res[p].faulted =>
                  /\ res[p].status = 500
                  /\ res[p].access = NoToken
                  /\ res[p].refresh = NoToken

\* The INSERT of the refresh token failed in a login with the right password:
\* the answer is a 500 without tokens and the ledger has no row.
C11_Witness ==
    /\ res["p1"].op = "login"
    /\ res["p1"].error = StoreError("INSERT refresh_tokens")
    /\ VerifyPassword(res["p1"].user, res["p1"].pw)
    /\ res["p1"].status = 500
    /\ res["p1"].access = NoToken /\ res["p1"].refresh = NoToken
    /\ Len(ledger) = 0


(* ------------------------------- C12 ----------------------------------- *)
\* The stored row of that email is locked at the current instant.
LockedNow(id) ==
    users[id].lockedUntil # Null /\ now < ParseDate(users[id].lockedUntil)

\* The response a login has to give when it is rejected before the password
\* is looked at, by the stored state of the email's identity.
EarlyRejection(email) ==
    LET id == FindByEmail(email) IN
    IF id = 0 THEN [status |-> 401, message |-> MsgInvalid]
    ELSE IF users[id].status # "active" THEN [status |-> 401, message |-> MsgInactive]
    ELSE IF LockedNow(id) THEN [status |-> 423, message |-> MsgLocked]
    ELSE [status |-> 0, message |-> ""]

\* C12: a login for an unknown email answers InvalidCredentials, for an
\* inactive identity AccountInactive (locked or not, any password), for a
\* locked active identity AccountLocked; in the three cases the call ends
\* there and the users table and the ledger are unchanged.
C12_EarlyRejectNoEffect ==
    [][\A email \in {AnaEmail, ZoeEmail}, text \in {AnaPlain, WrongPlain} :
          (LoginFind("p1", email, Plain(text)) /\ EarlyRejection(email).status # 0)
          => /\ pc'["p1"] = "idle"
             /\ res'["p1"].op = "login"
             /\ res'["p1"].status = EarlyRejection(email).status
             /\ res'["p1"].message = EarlyRejection(email).message
             /\ res'["p1"].access = NoToken /\ res'["p1"].refresh = NoToken
             /\ users' = users
             /\ ledger' = ledger]_vars

\* An identity that was locked and then deactivated was answered
\* AccountInactive for its right password; counter and lock are as they were.
C12_Witness ==
    /\ res["p1"].op = "login"
    /\ res["p1"].message = MsgInactive
    /\ res["p1"].pw = Plain(AnaPlain)
    /\ users[2].status = "inactive"
    /\ LockedNow(2)
    /\ users[2].loginAttempts = config.maxLoginAttempts
    /\ users[2] = [res["p1"].user EXCEPT !.id = users[2].id]


(* ------------------------------- C13 ----------------------------------- *)
\* What the caller sees of a login response.
Visible(r) == [status |-> r.status, message |-> r.message,
               access |-> r.access, refresh |-> r.refresh]

\* What the caller sees when the email is unknown: login's first return.
UnknownEmailResult ==
    [status |-> 401, message |-> MsgInvalid, access |-> NoToken, refresh |-> NoToken]

\* C13: the response to a wrong password for an existing, active, unlocked
\* identity is the same as the response for an unknown email.
C13_NoEnumeration ==
    \A p \in Procs :
        (/\ WrongPasswordReply(res[p])
         /\ res[p].user.status = "active"
         /\ ~IsLocked(res[p].user, res[p].at))
        => Visible(res[p]) = UnknownEmailResult


(* ------------- refresh calls with tokens the ledger never held --------- *)
\* A refresh token signed now with the refresh secret for Ana that no login
\* stored: the ledger never held it.
UnstoredTokens ==
    {SignRefresh(Row(2), now)} \ {issued[k] : k \in 1..Len(issued)}

InitProbe ==
    /\ InitCommon
    /\ config \in Configs({2}, {LedgerDays})
    /\ users = WithAna("active")
    /\ excel = AnaSheet("active")

\* One request at a time, sent by either of two callers.
NextProbe ==
    \/ AllIdle /\ LoginFind("p1", AnaEmail, Plain(AnaPlain))
    \/ LoginVerify("p1")
    \/ LoginStore("p1")
    \/ \E p \in Procs, token \in TokensAtHand \cup UnstoredTokens :
          AllIdle /\ RefreshVerify(p, token)
    \/ \E p \in Procs : RefreshLedger(p)
    \/ \E p \in Procs : RefreshUser(p)
    \/ \E token \in TokensAtHand : AllIdle /\ Logout("p1", token)
    \/ AllIdle /\ now < DayLen /\ Tick

SpecProbe == InitProbe /\ [][NextProbe]_vars

(* ------------------------------- C14 ----------------------------------- *)
\* What the caller sees of InvalidRefreshToken.
BadTokenResult ==
    [status |-> 401, message |-> MsgBadToken, access |-> NoToken, refresh |-> NoToken]

\* C14: when the ledger holds no row of a validly signed, unexpired refresh
\* token, refresh answers InvalidRefreshToken with the same response whether
\* the token was stored and removed by logout or was never stored.
C14_NoLedgerLeak ==
    [][\A p \in Procs :
          (/\ RefreshLedger(p)
           /\ \A k \in 1..Len(ledger) : ledger[k].token # loc[p].refresh)
          => /\ pc'[p] = "idle"
             /\ res'[p].op = "refresh"
             /\ Visible(res'[p]) = BadTokenResult]_vars

\* One caller sent a token that logout had removed, the other a token that
\* was never stored; both tokens verify, and the two responses are the same.
C14_Witness ==
    /\ res["p1"].op = "refresh" /\ res["p2"].op = "refresh"
    /\ JwtVerify(res["p1"].arg, "refresh", res["p1"].at)
    /\ JwtVerify(res["p2"].arg, "refresh", res["p2"].at)
    /\ res["p1"].arg \in revoked
    /\ \E k \in 1..Len(issued) : issued[k] = res["p1"].arg
    /\ res["p2"].arg \notin revoked
    /\ \A k \in 1..Len(issued) : issued[k] # res["p2"].arg
    /\ Visible(res["p1"]) = Visible(res["p2"])
    /\ Visible(res["p1"]) = BadTokenResult


(* ------------------------------- C15 ----------------------------------- *)
\* C15: every ledger row records an expiry of issuance time + 7 days,
\* whatever the token's own exp; and validateRefreshToken says yes only if a
\* row with that token and user id has an expiry strictly later than the
\* time of the query: at or after the recorded expiry it says no.
C15_LedgerExpiryAuthoritative ==
    /\ \A k \in 1..Len(ledger) :
          ParseDate(ledger[k].expiresAt) = ledger[k].token.iat + LedgerDays * DayLen
    /\ \A p \in Procs :
          pc[p] = "rfUser" =>
              \E k \in 1..Len(ledger) :
                  /\ ledger[k].token = loc[p].refresh
                  /\ ledger[k].userId = loc[p].refresh.uid
                  /\ ParseDate(ledger[k].expiresAt) > now


(* ------------------------------- C16 ----------------------------------- *)
\* C16: when a statement of the store fails during login or during refresh,
\* the response tells the caller of a store failure: it is neither the
\* response of InvalidRefreshToken nor that of InvalidCredentials.
C16_StoreFailureSurfaces ==
    \A p \in Procs :
        (res[p].faulted /\ res[p].op \in {"login", "refresh"}) =>
            /\ Visible(res[p]) # BadTokenResult
            /\ Visible(res[p]) # UnknownEmailResult
            /\ res[p].status = 500


(* --------- refresh after the admin has changed the identity ------------ *)
\* What the admin sends for Ana between her login and her refresh calls.
RefetchBodies ==
    {[status |-> "inactive"], [status |-> "active"], [role |-> "admin"],
     [email |-> BobEmail], [email |-> AnaEmail]}

InitRefetch ==
    /\ InitCommon
    /\ config \in Configs({2}, {LedgerDays})
    /\ users = WithAna("active")
    /\ excel = AnaSheet("active")

NextRefetch ==
    \/ \E email \in {AnaEmail, BobEmail} :
          AllIdle /\ LoginFind("p1", email, Plain(AnaPlain))
    \/ LoginVerify("p1")
    \/ LoginStore("p1")
    \/ \E token \in TokensAtHand : AllIdle /\ RefreshVerify("p1", token)
    \/ RefreshLedger("p1")
    \/ RefreshUser("p1")
    \/ \E body \in RefetchBodies : AllIdle /\ UpdateAuth("p1", 1, 2, body)
    \/ UpdateLoad("p1")
    \/ UpdateWrite("p1")
    \/ AllIdle /\ now < DayLen /\ Tick

SpecRefetch == InitRefetch /\ [][NextRefetch]_vars

(* ------------------------------- C17 ----------------------------------- *)
\* The last step of refresh, by the row stored now for the token's id claim:
\* no row or a status other than active is answered 401 with 'failure' and no
\* token; otherwise the new access token carries the stored email and role.
RefetchOutcome(p, failure) ==
    LET id == FindById(loc[p].refresh.uid) IN
    /\ pc'[p] = "idle"
    /\ res'[p].op = "refresh"
    /\ IF id = 0 \/ users[id].status # "active"
       THEN /\ res'[p].status = 401
            /\ res'[p].message = failure
            /\ res'[p].access = NoToken
       ELSE /\ res'[p].status = 200
            /\ res'[p].access.key = "access"
            /\ res'[p].access.uid = id
            /\ res'[p].access.email = users[id].email
            /\ res'[p].access.role = users[id].role

\* C17 as amended: refresh fetches the identity on every call; when it is
\* missing or not active, refresh answers 401 'User not found or inactive'
\* (a response the caller can tell from InvalidRefreshToken) and mints
\* nothing, though the token is in the ledger and unexpired; when refresh
\* succeeds the access token carries the email and role stored now.
C17_Refetch == [][\A p \in Procs : RefreshUser(p) => RefetchOutcome(p, MsgNoUser)]_vars

\* C17 as stated: the failure is InvalidRefreshToken.
C17_Original == [][\A p \in Procs : RefreshUser(p) => RefetchOutcome(p, MsgBadToken)]_vars

\* A refresh succeeded after the admin changed the email and the role: the
\* access token carries the new ones, not those the refresh token was
\* signed with at login.
C17_Witness ==
    /\ res["p1"].op = "refresh"
    /\ res["p1"].status = 200
    /\ res["p1"].access.email = users[2].email
    /\ res["p1"].access.email # res["p1"].arg.email
    /\ res["p1"].access.role = "admin"


(* ------------------------------- C18 ----------------------------------- *)
\* A step of a refresh call of p.
RefreshStep(p) ==
    \/ \E token \in TokensAtHand \cup UnstoredTokens : RefreshVerify(p, token)
    \/ RefreshLedger(p)
    \/ RefreshUser(p)

\* C18: no step of a refresh call, successful or not, changes the ledger or
\* the users table, and no response of refresh carries a refresh token: the
\* token is not rotated and stays accepted by later refresh calls.
C18_RefreshPersistsNothing ==
    [][\A p \in Procs :
          RefreshStep(p) => /\ ledger' = ledger
                            /\ users' = users
                            /\ excel' = excel
                            /\ res'[p].refresh = NoToken]_vars

\* After a login, two refresh calls with the refresh token it returned both
\* answered with an access token, and the ledger still holds the login's row.
C18_Witness ==
    /\ res["p1"].op = "refresh" /\ res["p1"].status = 200
    /\ res["p2"].op = "refresh" /\ res["p2"].status = 200
    /\ res["p1"].arg = res["p2"].arg
    /\ res["p1"].access.key = "access" /\ res["p2"].access.key = "access"
    /\ Len(issued) = 1 /\ issued[1] = res["p1"].arg
    /\ Len(ledger) = 1 /\ ledger[1].token = res["p1"].arg
    /\ users = WithAna("active")


(* ------------- several sessions, of one user and of two ---------------- *)
InitDevices ==
    /\ InitCommon
    /\ config \in Configs({2}, {LedgerDays})
    /\ users = WithAna("active")
    /\ excel = AnaSheet("active")

\* One request at a time: logins, logouts and refresh calls of Ana and of
\* the admin.
NextDevices ==
    \/ AllIdle /\ LoginFind("p1", AnaEmail, Plain(AnaPlain))
    \/ AllIdle /\ LoginFind("p1", AdminEmail, Plain(AdminPlain))
    \/ LoginVerify("p1")
    \/ LoginStore("p1")
    \/ \E token \in TokensAtHand : AllIdle /\ Logout("p1", token)
    \/ \E token \in TokensAtHand : AllIdle /\ RefreshVerify("p1", token)
    \/ RefreshLedger("p1")
    \/ RefreshUser("p1")
    \/ AllIdle /\ now < DayLen /\ Tick

SpecDevices == InitDevices /\ [][NextDevices]_vars

(* ------------------------------- C19 ----------------------------------- *)
\* C19: the step of login that stores the refresh token appends one row and
\* keeps every earlier row; logout(t) deletes the rows whose token is t and
\* keeps, in place, every row with another token, of the same user or of
\* another one.
C19_SessionsSideBySide ==
    [][/\ \A p \in Procs :
             LoginStore(p) =>
                 /\ Len(ledger') = Len(ledger) + 1
                 /\ SubSeq(ledger', 1, Len(ledger)) = ledger
                 /\ ledger'[Len(ledger')].token = loc[p].refresh
       /\ \A p \in Procs, token \in TokensAtHand :
             Logout(p, token) =>
                 ledger' = SelectSeq(ledger, LAMBDA row : row.token # token)]_vars

\* Ana logged in twice; logout removed the row of one of her tokens, and a
\* refresh with the other one, sent afterwards, was accepted.
C19_Witness ==
    /\ res["p1"].op = "refresh" /\ res["p1"].status = 200
    /\ \E t \in revoked :
          /\ t # res["p1"].arg
          /\ t.uid = res["p1"].arg.uid
          /\ \E k \in 1..Len(issued) : issued[k] = t
    /\ Len(issued) = 2
    /\ Len(ledger) = 1 /\ ledger[1].token = res["p1"].arg


(* ------------------------------- C20 ----------------------------------- *)
\* What the caller sees of MissingToken.
MissingTokenResult ==
    [status |-> 401, message |-> MsgNoToken, access |-> NoToken, refresh |-> NoToken]

\* The token does not pass: it was not signed with the refresh secret, or
\* the time of its own exp claim has come.
Unverifiable(token) == token.key # "refresh" \/ now >= token.exp

\* C20: refresh with a token whose signature is invalid, or that is validly
\* signed and expired by its own claim, ends at once with
\* InvalidRefreshToken, a 401 and not a server fault; refresh without a token
\* ends with MissingToken; the ledger and the users table are unchanged.
C20_BadTokenRejected ==
    [][\A token \in TokensAtHand :
          (RefreshVerify("p1", token) /\ (token = NoToken \/ Unverifiable(token)))
          => /\ pc'["p1"] = "idle"
             /\ res'["p1"].op = "refresh"
             /\ Visible(res'["p1"]) =
                   IF token = NoToken THEN MissingTokenResult ELSE BadTokenResult
             /\ ledger' = ledger
             /\ users' = users]_vars

\* A token a login handed out was sent when its own exp had come, with its
\* ledger row still there: the answer was InvalidRefreshToken.
C20_Witness ==
    /\ res["p1"].op = "refresh"
    /\ res["p1"].arg.key = "refresh"
    /\ res["p1"].at >= res["p1"].arg.exp
    /\ \E k \in 1..Len(issued) : issued[k] = res["p1"].arg
    /\ \E k \in 1..Len(ledger) : ledger[k].token = res["p1"].arg
    /\ Visible(res["p1"]) = BadTokenResult


(* ------------------- User.update, field by field ----------------------- *)
\* Request bodies of PUT /users/:id: the empty one, one column, several.
FrameBodies ==
    {<<>>,
     [email |-> BobEmail],
     [password |-> Plain(WrongPlain)],
     [role |-> "admin", status |-> "inactive", loginAttempts |-> 1]}

InitUpdate ==
    /\ InitCommon
    /\ config \in Configs({2}, {LedgerDays})
    /\ users = WithAna("active")
    /\ excel = AnaSheet("active")

\* One request at a time: the admin and Ana update Ana's row or the admin's.
NextUpdate ==
    \/ \E actor \in {1, 2}, target \in {1, 2}, body \in FrameBodies :
          AllIdle /\ UpdateAuth("p1", actor, target, body)
    \/ UpdateLoad("p1")
    \/ UpdateWrite("p1")
    \/ AllIdle /\ now < DayLen /\ Tick

SpecUpdate == InitUpdate /\ [][NextUpdate]_vars

\* The row User.update leaves when it is given data: the columns of data
\* hold what data supplies (the password its hash), the others what they held.
ExactlySupplied(old, new, data) ==
    \A f \in DOMAIN old \ {"updatedAt"} :
        new[f] = IF f \notin DOMAIN data THEN old[f]
                 ELSE IF f = "password" THEN BcryptHash(data[f])
                 ELSE data[f]

\* C21: when updateUser's call of User.update(id, data) succeeds, the row id
\* holds the supplied fields of data and keeps every other field, its
\* updatedAt is the current time whatever data holds (also nothing), and
\* every other row is as it was.
C21_UpdateFrame ==
    [][\A p \in Procs :
          (pc[p] = "updWrite" /\ pc'[p] = "idle" /\ res'[p].status = 200)
          => LET id == loc[p].user.id
                 data == AllowedBody(loc[p].body, loc[p].actor)
             IN /\ Len(users') = Len(users)
                /\ \A i \in 1..Len(users) : i # id => users'[i] = users[i]
                /\ ExactlySupplied(users[id], users'[id], data)
                /\ users'[id].updatedAt = SqlDatetime(now)]_vars

\* An update of Ana's row with an empty body has been answered 200 later
\* than the row was created: only updatedAt differs from the row it found,
\* and the admin's row is as created.
C21_Witness ==
    /\ res["p1"].op = "update" /\ res["p1"].status = 200
    /\ res["p1"].user.id = 2
    /\ res["p1"].user = [(WithAna("active"))[2] EXCEPT !.updatedAt = SqlDatetime(0)]
    /\ users[2] = [res["p1"].user EXCEPT !.updatedAt = SqlDatetime(now)]
    /\ now > 0
    /\ users[1].updatedAt = SqlDatetime(0)


(* --------------------------- App.initialize ---------------------------- *)
\* Mutant of StoreEmpty: the seed is created whenever its email is missing.
NoSeedAdmin(table) == \A i \in 1..Len(table) : table[i].email # AdminEmail

\* 'if (users.length === 0)' on the rows of User.findAll().
StoreEmpty(table) == Len(table) = 0

\* createDefaultAdmin, whole: nothing else runs while the application
\* starts.  The value it returns is kept as the row of that id (NoUser: null).
CreateDefaultAdmin(p) ==
    /\ pc[p] = "boot"
    /\ IF StoreEmpty(users)
       THEN LET made1 == UserCreate(users, AdminData) IN
            /\ made1.ok
            /\ users' = made1.table
            /\ excel' = AddUserToExcel(excel,
                           [AdminData EXCEPT !.password = made1.table[made1.id].password])
            /\ res' = [res EXCEPT ![p] =
                          UserReply("bootstrap", 0, "",
                                    [made1.table[made1.id] EXCEPT !.id = made1.id])]
       ELSE /\ UNCHANGED <<users, excel>>
            /\ res' = [res EXCEPT ![p] = UserReply("bootstrap", 0, "", NoUser)]
    /\ pc' = [pc EXCEPT ![p] = "bootImport"]
    /\ UNCHANGED <<now, config, ledger, loc, fails, passes, made, issued, revoked>>

\* The loop of initializeUsersFromExcel from record k on: the table it
\* leaves and the number of rows it created (a failure is logged, not counted).
RECURSIVE ImportUsers(_, _, _)
ImportUsers(table, recs, k) ==
    IF k > Len(recs) THEN [table |-> table, count |-> 0]
    ELSE LET rec == recs[k]
             existing == IF \E i \in 1..Len(table) : table[i].email = rec.email
                         THEN 1 ELSE 0
             made1 == UserCreate(table, SyncData(rec))
         IN IF SyncWanted(existing, rec) /\ made1.ok
            THEN LET rest == ImportUsers(made1.table, recs, k + 1)
                 IN [table |-> rest.table, count |-> rest.count + 1]
            ELSE ImportUsers(table, recs, k + 1)

\* initializeUsersFromExcel, whole, after createDefaultAdmin.
InitializeUsersFromExcel(p) ==
    /\ pc[p] = "bootImport"
    /\ LET done == ImportUsers(users, ReadUsersFromExcel(excel), 1) IN
       /\ users' = done.table
       /\ Reply(p, [UserReply("import", 0, "", NoUser) EXCEPT !.added = done.count])
    /\ UNCHANGED <<now, config, ledger, excel, fails, passes, made, issued, revoked>>

\* The process is stopped and started again: the database file and the
\* sheet stay, nothing in memory does.
Restart(p) ==
    /\ AllIdle
    /\ pc' = [pc EXCEPT ![p] = "boot"]
    /\ res' = [q \in Procs |-> NoRes]
    /\ UNCHANGED <<now, config, users, ledger, excel, loc, fails, passes, made, issued,
                   revoked>>

\* A new database file; the sheet may be there from an earlier installation.
InitBoot ==
    /\ now = 0
    /\ ledger = <<>>
    /\ pc = [p \in Procs |-> IF p = "p1" THEN "boot" ELSE "idle"]
    /\ loc = [p \in Procs |-> NoLoc]
    /\ res = [p \in Procs |-> NoRes]
    /\ fails = [i \in 1..MaxUsers |-> 0]
    /\ passes = <<>>
    /\ made = <<>>
    /\ issued = <<>>
    /\ revoked = {}
    /\ config \in Configs({3}, {LedgerDays})
    /\ users = <<>>
    /\ excel \in {<<>>, <<AnaRec>>, <<NoEmailRec, AnaRec>>}

\* Start-up, then one request at a time: the admin creates Ana, the admin
\* changes the email of their own row; restarts in between.
NextBoot ==
    \/ CreateDefaultAdmin("p1")
    \/ InitializeUsersFromExcel("p1")
    \/ Restart("p1")
    \/ AllIdle /\ CreateFind("p1", UserData(AnaEmail, AnaPlain, ""))
    \/ CreateInsert("p1")
    \/ CreateMirror("p1")
    \/ AllIdle /\ UpdateAuth("p1", 1, 1, [email |-> BobEmail])
    \/ UpdateLoad("p1")
    \/ UpdateWrite("p1")
    \/ AllIdle /\ now < DayLen /\ Tick

SpecBoot == InitBoot /\ [][NextBoot]_vars

\* C22: createDefaultAdmin on an empty table leaves exactly one row, the seed
\* admin with role admin and status active, and returns its id; on a table
\* with any row it returns null and leaves table and sheet as they were.
C22_SeedIffEmpty ==
    [][\A p \in Procs :
          (pc[p] = "boot" /\ pc'[p] = "bootImport")
          => IF users = <<>>
             THEN /\ Len(users') = 1
                  /\ users'[1].email = AdminEmail
                  /\ users'[1].role = "admin"
                  /\ users'[1].status = "active"
                  /\ BcryptCompare(Plain(AdminPlain), users'[1].password)
                  /\ res'[p].user.id = 1
             ELSE /\ users' = users
                  /\ excel' = excel
                  /\ res'[p].user = NoUser]_vars

\* After a restart createDefaultAdmin has returned null on a table that has
\* rows but none with the seed's email (the admin changed theirs).
C22_Witness ==
    /\ pc["p1"] = "bootImport"
    /\ res["p1"].op = "bootstrap"
    /\ res["p1"].user = NoUser
    /\ Len(users) >= 1
    /\ NoSeedAdmin(users)
    /\ users[1].role = "admin"


(* ---------------------- the lock after it has run out ------------------ *)
\* The login responses for an active identity found with a lockedUntil that
\* the clock has reached, the password being the right one.
AfterExpiryRight(r) ==
    /\ r.op = "login"
    /\ r.user # NoUser
    /\ r.user.status = "active"
    /\ r.user.lockedUntil # Null
    /\ r.at >= ParseDate(r.user.lockedUntil)
    /\ BcryptCompare(r.pw, r.user.password)

\* C23: a login with the correct password for an active identity whose
\* stored lockedUntil is not after the current time is answered 200 with
\* both tokens and leaves the identity not locked with loginAttempts = 0 (and
\* lockedUntil cleared whenever the counter was above 0): nothing but the
\* stored lockedUntil and the clock decides.
C23_ExpiryNeedsNoTransition ==
    \A p \in Procs :
        AfterExpiryRight(res[p])
        => /\ res[p].status = 200
           /\ res[p].access.key = "access"
           /\ res[p].refresh.key = "refresh"
           /\ users[res[p].user.id].loginAttempts = 0
           /\ ~IsLocked(users[res[p].user.id], res[p].at)
           /\ res[p].user.loginAttempts > 0
                 => users[res[p].user.id].lockedUntil = Null

\* Wrong passwords locked Ana; no request was made until the lock had run
\* out; her login with the right password was then answered 200 and the row
\* is unlocked with the counter at 0.
C23_Witness ==
    /\ AfterExpiryRight(res["p1"])
    /\ res["p1"].status = 200
    /\ res["p1"].user.loginAttempts >= config.maxLoginAttempts
    /\ users[2].loginAttempts = 0
    /\ users[2].lockedUntil = Null


(* -------------------- reconciliation under creation races -------------- *)
\* The rows of the table that hold this email.
RowsOf(email) == {i \in 1..Len(users) : users[i].email = email}

\* The identities a pass created itself.
MadeBy(pass) ==
    {m \in 1..Len(made) : made[m].by = pass.by /\ made[m].pass = pass.after}

UniqueError == "UNIQUE constraint failed: users.email"

\* C24: under any interleaving of two passes and createUser calls, no email
\* is held by two identities; a pass whose INSERT was rejected as a duplicate
\* is still answered 200, has that record among its errors and not in its
\* count, and has gone on through its remaining records, so every record of
\* its batch that has an email and a password has its identity (exactly
\* one); a createUser call that lost the race is answered with the store's
\* error and the email has exactly one identity.
C24_SyncToleratesRaces ==
    /\ \A i, j \in 1..Len(users) : users[i].email = users[j].email => i = j
    /\ \A p \in Procs : res[p].op = "sync" => res[p].status = 200
    /\ \A k \in 1..Len(passes) :
          /\ \A e \in 1..Len(passes[k].errors) :
                /\ passes[k].errors[e].error = UniqueError
                /\ Cardinality(RowsOf(passes[k].errors[e].email)) = 1
                /\ \A m \in MadeBy(passes[k]) :
                      made[m].rec.email # passes[k].errors[e].email
          /\ passes[k].added = Cardinality(MadeBy(passes[k]))
          /\ \A r \in 1..Len(passes[k].recs) :
                (passes[k].recs[r].email # "" /\ passes[k].recs[r].password # NoPassword)
                => Cardinality(RowsOf(passes[k].recs[r].email)) = 1
    /\ \A p \in Procs :
          (res[p].op = "create" /\ res[p].status = 500)
          => res[p].error = UniqueError /\ Cardinality(RowsOf(res[p].email)) = 1

\* Two passes ran at the same time over Ana's and Bob's records: one lost the
\* INSERT of Ana to the other, reported it among its errors, and went on to
\* create Bob itself.
C24_Witness ==
    \E k, w \in 1..Len(passes) :
        /\ k # w
        /\ passes[k].by # passes[w].by
        /\ Len(passes[k].errors) = 1
        /\ passes[k].errors[1].email = AnaEmail
        /\ \E m \in MadeBy(passes[w]) : made[m].rec.email = AnaEmail
        /\ \E m \in MadeBy(passes[k]) :
              /\ made[m].rec.email = BobEmail
              /\ passes[k].recs[made[m].i - 1].email = AnaEmail
        /\ passes[k].added = 1


(* ------------------- every record of the batch ------------------------- *)
\* A record the loop never hands to User.create.
Lacking(rec) == rec.email = "" \/ rec.password = NoPassword

\* C25: a pass ends only after its last record and is answered 200; no
\* identity was ever created from a record without email or without
\* password; a record whose INSERT failed is in the errors of the pass and
\* the records after it were still handled (each record with email and
\* password has its identity when the pass ends); and the count of the pass
\* is the number of identities this pass created, errors and skipped records
\* making up the rest of the batch.
C25_EveryRecord ==
    /\ \A m \in 1..Len(made) : ~Lacking(made[m].rec)
    /\ \A i \in 1..Len(users) : users[i].email # "" /\ users[i].password # NoPassword
    /\ \A k \in 1..Len(passes) :
          /\ passes[k].seen = Len(passes[k].recs)
          /\ passes[k].added = Cardinality(MadeBy(passes[k]))
          /\ passes[k].added + Len(passes[k].errors) <= Len(passes[k].recs)
          /\ \A m \in MadeBy(passes[k]) : passes[k].recs[made[m].i] = made[m].rec
          /\ \A r \in 1..Len(passes[k].recs) :
                IF Lacking(passes[k].recs[r])
                THEN \A m \in MadeBy(passes[k]) : made[m].i # r
                ELSE RowsOf(passes[k].recs[r].email) # {}
    /\ \A p \in Procs :
          res[p].op = "sync"
          => /\ res[p].status = 200
             /\ \E k \in 1..Len(passes) :
                   /\ passes[k].by = p
                   /\ passes[k].added = res[p].added
                   /\ passes[k].errors = res[p].errors

\* A pass over a batch whose second record has no password and whose third
\* is Bob's: it created Bob only, and nobody holds the email of the record
\* without password.
C25_Witness ==
    \E k \in 1..Len(passes) :
        /\ Len(passes[k].recs) = 3
        /\ passes[k].recs[2].email = ZoeEmail
        /\ passes[k].recs[2].password = NoPassword
        /\ passes[k].recs[3].email = BobEmail
        /\ passes[k].added = 1
        /\ \E m \in MadeBy(passes[k]) : made[m].i = 3
        /\ RowsOf(ZoeEmail) = {}
        /\ res[passes[k].by].op = "sync"
        /\ res[passes[k].by].added = 1


(* --------------------------- role and status --------------------------- *)
\* C26: an updateUser call whose caller's stored role is not admin leaves
\* role and status of the target row as they were, whatever the body holds,
\* and when it is answered 200 every other field of the body is in the row
\* (the password as its hash).
C26_OnlyAdminChangesRole ==
    [][\A p \in Procs :
          (/\ pc[p] = "updWrite" /\ pc'[p] = "idle"
           /\ users[loc[p].actor.id].role # "admin")
          => LET id == loc[p].user.id
                 body == loc[p].body
             IN /\ users'[id].role = users[id].role
                /\ users'[id].status = users[id].status
                /\ res'[p].status = 200
                      => \A f \in DOMAIN body \ {"role", "status"} :
                            users'[id][f] = IF f = "password" THEN BcryptHash(body[f])
                                            ELSE body[f]]_vars

\* Ana sent {role: admin, status: inactive, loginAttempts: 1} for her own
\* row and was answered 200: the counter is written, she is still an active
\* user.
C26_Witness ==
    /\ res["p1"].op = "update" /\ res["p1"].status = 200
    /\ res["p1"].user.id = 2
    /\ res["p1"].user.loginAttempts = 0
    /\ users[2].loginAttempts = 1
    /\ users[2].role = "user"
    /\ users[2].status = "active"


(* ------------------ a running lock and a late wrong password ----------- *)
\* C27: a login that answers a wrong password leaves every lockedUntil that
\* is stored and still in the future neither cleared nor moved earlier,
\* whenever that login read the row.
C27_LockSurvivesStaleLogin ==
    [][\A p \in Procs, i \in 1..Len(users) :
          (/\ pc[p] = "verify" /\ pc'[p] = "idle"
           /\ ~VerifyPassword(loc[p].user, loc[p].pw)
           /\ users[i].lockedUntil # Null
           /\ now < ParseDate(users[i].lockedUntil))
          => /\ users'[i].lockedUntil # Null
             /\ ParseDate(users'[i].lockedUntil) >= ParseDate(users[i].lockedUntil)]_vars


C29_UpdateKeepsLockout ==
    [][\A p \in Procs :
          (pc[p] = "updWrite" /\ pc'[p] = "idle")
          => /\ users'[loc[p].user.id].loginAttempts = users[loc[p].user.id].loginAttempts
             /\ users'[loc[p].user.id].lockedUntil = users[loc[p].user.id].lockedUntil]_vars


(* ------------- login, refresh and logout, one call at a time ----------- *)
InitCalls ==
    /\ InitCommon
    /\ config \in Configs({1, 2, 3}, {LedgerDays})
    /\ users = WithAna("active")
    /\ excel = AnaSheet("active")

\* Ana logs in with the right or a wrong password, refreshes, logs out; the
\* clock moves between the calls, far enough for a lock to run out.
NextCalls ==
    \/ \E text \in {AnaPlain, WrongPlain} :
          AllIdle /\ LoginFind("p1", AnaEmail, Plain(text))
    \/ LoginVerify("p1")
    \/ LoginStore("p1")
    \/ \E token \in TokensAtHand : AllIdle /\ RefreshVerify("p1", token)
    \/ RefreshLedger("p1")
    \/ RefreshUser("p1")
    \/ \E token \in TokensAtHand : AllIdle /\ Logout("p1", token)
    \/ AllIdle /\ now < DayLen /\ Tick

SpecCalls == InitCalls /\ [][NextCalls]_vars

\* C30: in every state reached by login, refresh and logout calls made one
\* at a time, each row has loginAttempts >= 0 and holds a lockedUntil only
\* if loginAttempts >= the threshold; after a wrong password that leaves the
\* counter below the threshold lockedUntil is unset.
C30_LockoutInvariant ==
    /\ \A i \in 1..Len(users) :
          /\ users[i].loginAttempts >= 0
          /\ users[i].lockedUntil # Null
                => users[i].loginAttempts >= config.maxLoginAttempts
    /\ \A p \in Procs :
          (/\ WrongPasswordReply(res[p])
           /\ res[p].status = 401
           /\ users[res[p].user.id].loginAttempts < config.maxLoginAttempts)
          => /\ users[res[p].user.id].loginAttempts = res[p].user.loginAttempts + 1
             /\ users[res[p].user.id].lockedUntil = Null

\* With threshold 2 Ana was locked, the lock ran out, she logged in and
\* refreshed; a wrong password since then has left the counter at 1 and no
\* lockedUntil.
C30_Witness ==
    /\ config.maxLoginAttempts = 2
    /\ WrongPasswordReply(res["p1"])
    /\ res["p1"].status = 401
    /\ users[2].loginAttempts = 1
    /\ users[2].lockedUntil = Null
    /\ Len(issued) >= 1
    /\ now >= config.lockoutTime
    /\ fails[2] = 1

====
